---- MODULE Spec2Model ----
(***************************************************************************)
(* State-machine model of src/app.py: the Flask service that validates an  *)
(* uploaded image, runs the pre-loaded classifier on it, normalizes the    *)
(* top label and composes the explanation.                                 *)
(*                                                                         *)
(* Numbers.  Scores and confidences are fractions in [0,1]; they are kept  *)
(* as integers in units of 10^-6 (Scale = 1.0).  Percentages are kept in   *)
(* units of 10^-6 percent, so "x * 100" is a real multiplication.  Python  *)
(* round(x, n) is correctly rounded on the binary value of x: away from a  *)
(* decimal tie it returns the nearest value, on a decimal tie the binary   *)
(* value lies on either side, so the result is either neighbour (tie_up).  *)
(*                                                                         *)
(* Strings that the code searches (labels, keywords) are sequences of      *)
(* one-character strings.                                                  *)
(***************************************************************************)
EXTENDS Integers, Sequences, FiniteSets, TLC

VARIABLES
    classifier,    \* module-level handle (lines 36-45): "None" or "pipeline"
    pc,            \* position of the /predict handler
    request,       \* the multipart upload as it arrived (never changes in a request)
    file,          \* request.files["image"]: the stream (content, position)
    image_bytes,   \* number of bytes file.read() returned (line 100), -1 before
    image,         \* decoded image mode (line 101): "none" or "RGB"
    inference,     \* classifier call (line 105): "none", "raised", "returned"
    results,       \* the classifier's output (line 105)
    response,      \* the response of the current /predict request
    lastResponse,  \* kind, status and message of the previous /predict response
    trace,         \* steps the current request went through, in order
    health,        \* the last GET /health response
    fn             \* a direct call of one function and its return value

vars == <<classifier, pc, request, file, image_bytes, image, inference,
          results, response, lastResponse, trace, health, fn>>

---------------------------------------------------------------------------
(* Bounds of the model *)

\* longest result list the classifier returns
MaxResults == 2
\* upload sizes tried on either side of MAX_FILE_SIZE, in bytes
SizeWindow == 2
\* confidences tried on either side of each band threshold, in 10^-6 steps
Window == 3

---------------------------------------------------------------------------
(* Program constants *)

MAX_FILE_SIZE == 5 * 1024 * 1024

ALLOWED_EXTENSIONS == {"image/jpeg", "image/png", "image/webp"}

\* the keyword list without its last entry
KEYWORDS_without_synthetic ==
    << <<"a", "r", "t", "i", "f", "i", "c", "i", "a", "l">>,
       <<"f", "a", "k", "e">>,
       <<"a", "i">>,
       <<"g", "e", "n", "e", "r", "a", "t", "e", "d">> >>

\* the keyword list of line 115, in its order
KEYWORDS ==
    << <<"a", "r", "t", "i", "f", "i", "c", "i", "a", "l">>,
       <<"f", "a", "k", "e">>,
       <<"a", "i">>,
       <<"g", "e", "n", "e", "r", "a", "t", "e", "d">>,
       <<"s", "y", "n", "t", "h", "e", "t", "i", "c">> >>

\* 1.0 in the unit of scores and confidences
Scale == 10^6

\* the thresholds 0.90 and 0.70 of build_explanation
HIGH_BAND == (90 * Scale) \div 100

MID_BAND == (70 * Scale) \div 100

---------------------------------------------------------------------------
(* Numbers *)

Abs(x) == IF x < 0 THEN -x ELSE x

\* x rounded to a multiple of q; on a tie, up when tie_up and down otherwise
RoundTie(x, q, tie_up) ==
    LET lo == (x \div q) * q
        r  == x - lo
    IN  IF 2 * r < q THEN lo
        ELSE IF 2 * r > q THEN lo + q
        ELSE IF tie_up THEN lo + q ELSE lo

\* x rounded to a multiple of q, ties to the even multiple: exact binary values
RoundHalfEven(x, q) == RoundTie(x, q, ((x \div q) % 2) = 1)

\* Python round(x, n) of a decimal x: q is 10^-n in the unit of x
PyRound(x, q, tie_up) == RoundTie(x, q, tie_up)

---------------------------------------------------------------------------
(* Strings *)

UpperCase == <<"A", "B", "C", "D", "E", "F", "G", "H", "I", "J", "K", "L", "M",
               "N", "O", "P", "Q", "R", "S", "T", "U", "V", "W", "X", "Y", "Z">>

LowerCase == <<"a", "b", "c", "d", "e", "f", "g", "h", "i", "j", "k", "l", "m",
               "n", "o", "p", "q", "r", "s", "t", "u", "v", "w", "x", "y", "z">>

\* str.lower() on one character
LowerChar(c) ==
    IF \E i \in 1..26 : UpperCase[i] = c
    THEN LowerCase[CHOOSE i \in 1..26 : UpperCase[i] = c]
    ELSE c

\* str.lower()
Lower(s) == [i \in 1..Len(s) |-> LowerChar(s[i])]

StartsWith(s, kw) == Len(kw) <= Len(s) /\ SubSeq(s, 1, Len(kw)) = kw

\* Python "kw in s": scan s from the left for an occurrence of kw
RECURSIVE Contains(_, _)
Contains(s, kw) ==
    IF Len(kw) > Len(s) THEN FALSE
    ELSE IF StartsWith(s, kw) THEN TRUE
    ELSE Contains(Tail(s), kw)

\* any(kw in raw_label for kw in kws), kws taken in order from index i
RECURSIVE AnyKeyword(_, _, _)
AnyKeyword(raw_label, kws, i) ==
    IF i > Len(kws) THEN FALSE
    ELSE IF Contains(raw_label, kws[i]) THEN TRUE
    ELSE AnyKeyword(raw_label, kws, i + 1)

---------------------------------------------------------------------------
(* Messages and responses *)

NoMsg == [template |-> "", ctype |-> "", mb |-> -1]

\* f"Invalid file type '{content_type}'. Only JPG, PNG, WEBP allowed." (line 51)
InvalidTypeMsg(content_type) ==
    [template |-> "Invalid file type '{content_type}'. Only JPG, PNG, WEBP allowed.",
     ctype |-> content_type, mb |-> -1]

\* f"File too large ({size / 1024 / 1024:.2f} MB). Max is 5 MB." (line 56); the
\* division by 2^20 is exact, so the two decimals are the half-even rounding;
\* mb is in hundredths of a MB
TooLargeMsg(size) ==
    [template |-> "File too large ({size / 1024 / 1024:.2f} MB). Max is 5 MB.",
     ctype |-> "", mb |-> RoundHalfEven(size * 100, 1024 * 1024) \div (1024 * 1024)]

FixedMsg(text) == [template |-> text, ctype |-> "", mb |-> -1]

NoExplanation == [template |-> "", pct |-> -1]

NoResponse ==
    [status |-> 0, kind |-> "none", json |-> FALSE, error |-> NoMsg,
     prediction |-> "", confidence |-> -1, explanation |-> NoExplanation]

\* jsonify({"error": msg}), status
ErrorResponse(status, kind, msg) ==
    [status |-> status, kind |-> kind, json |-> TRUE, error |-> msg,
     prediction |-> "", confidence |-> -1, explanation |-> NoExplanation]

\* an exception leaves predict(): Flask answers 500 with its own HTML page
UnhandledException ==
    [status |-> 500, kind |-> "Unhandled", json |-> FALSE, error |-> NoMsg,
     prediction |-> "", confidence |-> -1, explanation |-> NoExplanation]

ModelNotLoaded ==
    ErrorResponse(503, "ModelUnavailable",
                  FixedMsg("Model not loaded. Please check server logs."))

NoImageProvided ==
    ErrorResponse(400, "MissingFile", FixedMsg("No image file provided."))

EmptyFilename ==
    ErrorResponse(400, "MissingFile", FixedMsg("Empty filename."))

\* line 98: the message of the check of validate_image that failed
ValidationError(outcome, msg) == ErrorResponse(422, outcome, msg)

\* the decode failure answered with the message of the inference failure
DecodeError_inference_message ==
    ErrorResponse(422, "DecodeFailure", FixedMsg("Model inference failed."))

DecodeError ==
    ErrorResponse(422, "DecodeFailure",
                  FixedMsg("Could not read image. File may be corrupted."))

InferenceFailed ==
    ErrorResponse(500, "InferenceError", FixedMsg("Model inference failed."))

\* what the next request remembers of a response
Summary(r) == [kind |-> r.kind, status |-> r.status, template |-> r.error.template]

---------------------------------------------------------------------------
(* validate_image (lines 48-57) *)

\* fault: which call on the stream raises, if any
Faults == {"none", "seek_end", "seek_start"}

\* validate_image with the size check before the content-type check
validate_image_size_first(f, fault) ==
    IF fault = "seek_end"
    THEN [outcome |-> "Raised", valid |-> FALSE, msg |-> NoMsg, file |-> f]
    ELSE LET at_end  == [f EXCEPT !.pos = f.size]
             size    == at_end.pos
             rewound == [at_end EXCEPT !.pos = 0]
         IN  IF fault = "seek_start"
             THEN [outcome |-> "Raised", valid |-> FALSE, msg |-> NoMsg,
                   file |-> at_end]
             ELSE IF size > MAX_FILE_SIZE
             THEN [outcome |-> "TooLarge", valid |-> FALSE,
                   msg |-> TooLargeMsg(size), file |-> rewound]
             ELSE IF f.content_type \notin ALLOWED_EXTENSIONS
             THEN [outcome |-> "InvalidType", valid |-> FALSE,
                   msg |-> InvalidTypeMsg(f.content_type), file |-> rewound]
             ELSE [outcome |-> "Ok", valid |-> TRUE, msg |-> NoMsg,
                   file |-> rewound]

\* validate_image comparing with >= instead of >
validate_image_ge(f, fault) ==
    IF f.content_type \notin ALLOWED_EXTENSIONS
    THEN [outcome |-> "InvalidType", valid |-> FALSE,
          msg |-> InvalidTypeMsg(f.content_type), file |-> f]
    ELSE IF fault = "seek_end"
    THEN [outcome |-> "Raised", valid |-> FALSE, msg |-> NoMsg, file |-> f]
    ELSE LET at_end  == [f EXCEPT !.pos = f.size]
             size    == at_end.pos
             rewound == [at_end EXCEPT !.pos = 0]
         IN  IF fault = "seek_start"
             THEN [outcome |-> "Raised", valid |-> FALSE, msg |-> NoMsg,
                   file |-> at_end]
             ELSE IF size >= MAX_FILE_SIZE
             THEN [outcome |-> "TooLarge", valid |-> FALSE,
                   msg |-> TooLargeMsg(size), file |-> rewound]
             ELSE [outcome |-> "Ok", valid |-> TRUE, msg |-> NoMsg,
                   file |-> rewound]

\* validate_image without the file.seek(0) of line 54
validate_image_no_rewind(f, fault) ==
    IF f.content_type \notin ALLOWED_EXTENSIONS
    THEN [outcome |-> "InvalidType", valid |-> FALSE,
          msg |-> InvalidTypeMsg(f.content_type), file |-> f]
    ELSE IF fault = "seek_end"
    THEN [outcome |-> "Raised", valid |-> FALSE, msg |-> NoMsg, file |-> f]
    ELSE LET at_end  == [f EXCEPT !.pos = f.size]
             size    == at_end.pos
         IN  IF size > MAX_FILE_SIZE
             THEN [outcome |-> "TooLarge", valid |-> FALSE,
                   msg |-> TooLargeMsg(size), file |-> at_end]
             ELSE [outcome |-> "Ok", valid |-> TRUE, msg |-> NoMsg,
                   file |-> at_end]

\* validate_image without the size check of lines 55-56
validate_image_no_size_check(f, fault) ==
    IF f.content_type \notin ALLOWED_EXTENSIONS
    THEN [outcome |-> "InvalidType", valid |-> FALSE,
          msg |-> InvalidTypeMsg(f.content_type), file |-> f]
    ELSE IF fault = "seek_end"
    THEN [outcome |-> "Raised", valid |-> FALSE, msg |-> NoMsg, file |-> f]
    ELSE LET at_end  == [f EXCEPT !.pos = f.size]
             rewound == [at_end EXCEPT !.pos = 0]
         IN  IF fault = "seek_start"
             THEN [outcome |-> "Raised", valid |-> FALSE, msg |-> NoMsg,
                   file |-> at_end]
             ELSE [outcome |-> "Ok", valid |-> TRUE, msg |-> NoMsg,
                   file |-> rewound]

\* returns the (valid, msg) pair, the stream as the function leaves it, and
\* the way the function ended: "Ok", the check that failed, or "Raised" when
\* an exception left it
validate_image(f, fault) ==
    IF f.content_type \notin ALLOWED_EXTENSIONS
    THEN [outcome |-> "InvalidType", valid |-> FALSE,
          msg |-> InvalidTypeMsg(f.content_type), file |-> f]
    ELSE IF fault = "seek_end"
    THEN [outcome |-> "Raised", valid |-> FALSE, msg |-> NoMsg, file |-> f]
    ELSE LET at_end  == [f EXCEPT !.pos = f.size]
             size    == at_end.pos
             rewound == [at_end EXCEPT !.pos = 0]
         IN  IF fault = "seek_start"
             THEN [outcome |-> "Raised", valid |-> FALSE, msg |-> NoMsg,
                   file |-> at_end]
             ELSE IF size > MAX_FILE_SIZE
             THEN [outcome |-> "TooLarge", valid |-> FALSE,
                   msg |-> TooLargeMsg(size), file |-> rewound]
             ELSE [outcome |-> "Ok", valid |-> TRUE, msg |-> NoMsg,
                   file |-> rewound]

---------------------------------------------------------------------------
(* build_explanation (lines 60-75) *)

AI_HIGH == "The model is highly confident ({pct}%) this image was created by an AI system."

AI_MID == "The model suspects ({pct}%) this image is AI-generated."

AI_LOW == "The model leans toward AI-generated ({pct}%), but with moderate uncertainty."

REAL_HIGH == "The model is highly confident ({pct}%) this is a real photograph."

REAL_MID == "The model believes ({pct}%) this is a real image."

REAL_LOW == "The model leans toward real ({pct}%), but is not highly certain."

\* build_explanation choosing the band from the rounded percentage
build_explanation_band_of_pct(label, confidence, tie_up) ==
    LET pct == PyRound(confidence * 100, 10^5, tie_up)
    IN  IF label = "AI Generated"
        THEN IF pct >= HIGH_BAND * 100 THEN [template |-> AI_HIGH, pct |-> pct]
             ELSE IF pct >= MID_BAND * 100 THEN [template |-> AI_MID, pct |-> pct]
             ELSE [template |-> AI_LOW, pct |-> pct]
        ELSE IF pct >= HIGH_BAND * 100 THEN [template |-> REAL_HIGH, pct |-> pct]
             ELSE IF pct >= MID_BAND * 100 THEN [template |-> REAL_MID, pct |-> pct]
             ELSE [template |-> REAL_LOW, pct |-> pct]

\* the returned text: its template and the interpolated pct (10^-6 percent)
build_explanation(label, confidence, tie_up) ==
    LET pct == PyRound(confidence * 100, 10^5, tie_up)
    IN  IF label = "AI Generated"
        THEN IF confidence >= HIGH_BAND THEN [template |-> AI_HIGH, pct |-> pct]
             ELSE IF confidence >= MID_BAND THEN [template |-> AI_MID, pct |-> pct]
             ELSE [template |-> AI_LOW, pct |-> pct]
        ELSE IF confidence >= HIGH_BAND THEN [template |-> REAL_HIGH, pct |-> pct]
             ELSE IF confidence >= MID_BAND THEN [template |-> REAL_MID, pct |-> pct]
             ELSE [template |-> REAL_LOW, pct |-> pct]

---------------------------------------------------------------------------
(* The tail of predict (lines 111-127) *)

\* max(results, key=lambda x: x["score"]): the first entry of maximal score
RECURSIVE max_index(_, _, _)
max_index(rs, i, best) ==
    IF i > Len(rs) THEN best
    ELSE max_index(rs, i + 1, IF rs[i].score > rs[best].score THEN i ELSE best)

\* the last entry of maximal score instead of the first
RECURSIVE max_index_last(_, _, _)
max_index_last(rs, i, best) ==
    IF i > Len(rs) THEN best
    ELSE max_index_last(rs, i + 1, IF rs[i].score >= rs[best].score THEN i ELSE best)

py_max_last(rs) == rs[max_index_last(rs, 2, 1)]

py_max(rs) == rs[max_index(rs, 2, 1)]

\* lines 115-118, on the lowercased label
prediction_of(raw_label) ==
    IF AnyKeyword(raw_label, KEYWORDS, 1) THEN "AI Generated" ELSE "Real"

\* max() raises ValueError on an empty list, the key function raises KeyError
\* on an entry without "score", top["label"] raises KeyError
postprocess_raises(rs) ==
    \/ Len(rs) = 0
    \/ \E i \in 1..Len(rs) : ~rs[i].has_score
    \/ ~py_max(rs).has_label

\* lines 111-127 when nothing raises
prediction_response(rs, tie1, tie2) ==
    LET top        == py_max(rs)
        raw_label  == Lower(top.label)
        confidence == PyRound(top.score, 100, tie1)
        prediction == prediction_of(raw_label)
    IN  [status |-> 200, kind |-> "Ok", json |-> TRUE, error |-> NoMsg,
         prediction |-> prediction,
         confidence |-> PyRound(confidence * 100, 10^4, tie2),
         explanation |-> build_explanation(prediction, confidence, tie2)]

---------------------------------------------------------------------------
(* Inputs *)

\* declared content types of an upload
ContentTypes == {"image/jpeg", "image/png", "image/gif"}

\* upload sizes in bytes: the end-to-end cases of the service
UploadSizes == {10, MAX_FILE_SIZE, MAX_FILE_SIZE + 1, 6 * 1024 * 1024}

NoFile ==
    [content_type |-> "", filename |-> "", size |-> 0, decodable |-> FALSE, pos |-> 0]

NoRequest ==
    [has_image |-> FALSE, content_type |-> "", filename |-> "", size |-> 0,
     decodable |-> FALSE]

\* the multipart bodies a client sends: no "image" field, or one upload
Requests ==
    {NoRequest} \cup
    [has_image : {TRUE}, content_type : ContentTypes, filename : {"", "photo.jpg"},
     size : UploadSizes, decodable : BOOLEAN]

\* request.files["image"]: werkzeug leaves the parsed stream at position 0
FileOf(req) ==
    [content_type |-> req.content_type, filename |-> req.filename,
     size |-> req.size, decodable |-> req.decodable, pos |-> 0]

Entry(label, score) ==
    [has_label |-> TRUE, label |-> label, has_score |-> TRUE, score |-> score]

\* (label, score) dictionaries a model emits
Entries ==
    { Entry(<<"A", "I", "-", "g", "e", "n", "e", "r", "a", "t", "e", "d">>, 923000),
      Entry(<<"r", "e", "a", "l">>, 923000),
      Entry(<<"f", "a", "k", "e", " ", "p", "h", "o", "t", "o">>, 899900),
      Entry(<<"s", "y", "n", "t", "h", "e", "t", "i", "c", " ", "a", "r", "t">>, 699960),
      Entry(<<"p", "h", "o", "t", "o", "g", "r", "a", "p", "h">>, 899950),
      Entry(<<"a", "r", "t", "i", "f", "i", "c", "i", "a", "l">>, 300000),
      Entry(<<"h", "u", "m", "a", "n">>, 999960),
      [has_label |-> FALSE, label |-> <<>>, has_score |-> TRUE, score |-> 950000],
      [has_label |-> TRUE, label |-> <<"r", "e", "a", "l">>,
       has_score |-> FALSE, score |-> 0] }

\* the lists the classifier call returns
ResultLists == UNION {[1..n -> Entries] : n \in 0..MaxResults}

NoHealth == [status |-> 0, model_loaded |-> FALSE]

NoValidation == [outcome |-> "", valid |-> FALSE, msg |-> NoMsg, file |-> NoFile]

NoFn ==
    [name |-> "none", done |-> FALSE, file |-> NoFile, fault |-> "none",
     label |-> "", confidence |-> 0, tie_up |-> FALSE,
     validation |-> NoValidation, explanation |-> NoExplanation]

---------------------------------------------------------------------------
(* The service *)

\* lines 36-45: the load at import time succeeded or failed
Init ==
    /\ classifier \in {"None", "pipeline"}
    /\ pc = "idle"
    /\ request = NoRequest
    /\ file = NoFile
    /\ image_bytes = -1
    /\ image = "none"
    /\ inference = "none"
    /\ results = <<>>
    /\ response = NoResponse
    /\ lastResponse = Summary(NoResponse)
    /\ trace = <<>>
    /\ health = NoHealth
    /\ fn = NoFn

\* the handler returns r
Respond(r) ==
    /\ response' = r
    /\ pc' = "responded"

\* a POST /predict arrives
Receive ==
    /\ pc \in {"idle", "responded"}
    /\ \E req \in Requests :
          /\ request' = req
          /\ file' = IF req.has_image THEN FileOf(req) ELSE NoFile
    /\ lastResponse' = IF pc = "responded" THEN Summary(response) ELSE lastResponse
    /\ pc' = "entry"
    /\ image_bytes' = -1
    /\ image' = "none"
    /\ inference' = "none"
    /\ results' = <<>>
    /\ response' = NoResponse
    /\ trace' = <<>>
    /\ UNCHANGED <<classifier, health, fn>>

\* lines 89-95
PredictEntry ==
    /\ pc = "entry"
    /\ IF classifier = "None" THEN Respond(ModelNotLoaded)
       ELSE IF ~request.has_image THEN Respond(NoImageProvided)
       ELSE IF file.filename = "" THEN Respond(EmptyFilename)
       ELSE pc' = "validate" /\ UNCHANGED response
    /\ UNCHANGED <<classifier, request, file, image_bytes, image, inference,
                   results, lastResponse, trace, health, fn>>

\* lines 96-98
Validate ==
    /\ pc = "validate"
    /\ \E fault \in Faults :
          LET r == validate_image(file, fault)
          IN  /\ file' = r.file
              /\ IF r.outcome = "Raised" THEN Respond(UnhandledException)
                 ELSE IF ~r.valid THEN Respond(ValidationError(r.outcome, r.msg))
                 ELSE pc' = "decode" /\ UNCHANGED response
    /\ trace' = Append(trace, "validate")
    /\ UNCHANGED <<classifier, request, image_bytes, image, inference, results,
                   lastResponse, health, fn>>

\* lines 99-103: read() returns the bytes from the position to the end; the
\* bytes open as an image when they are all the bytes of a decodable upload
Decode ==
    /\ pc = "decode"
    /\ image_bytes' = file.size - file.pos
    /\ file' = [file EXCEPT !.pos = file.size]
    /\ IF file.decodable /\ file.pos = 0
       THEN image' = "RGB" /\ pc' = "classify" /\ UNCHANGED response
       ELSE image' = "none" /\ Respond(DecodeError)
    /\ trace' = Append(trace, "decode")
    /\ UNCHANGED <<classifier, request, inference, results, lastResponse, health, fn>>

\* lines 104-109: the call raises or returns a list
Classify ==
    /\ pc = "classify"
    /\ \E raises \in BOOLEAN :
          IF raises
          THEN inference' = "raised" /\ results' = <<>> /\ Respond(InferenceFailed)
          ELSE /\ inference' = "returned"
               /\ results' \in ResultLists
               /\ pc' = "postprocess"
               /\ UNCHANGED response
    /\ trace' = Append(trace, "classify")
    /\ UNCHANGED <<classifier, request, file, image_bytes, image, lastResponse,
                   health, fn>>

\* lines 111-127
Postprocess ==
    /\ pc = "postprocess"
    /\ IF postprocess_raises(results)
       THEN Respond(UnhandledException)
       ELSE \E tie1, tie2 \in BOOLEAN :
               Respond(prediction_response(results, tie1, tie2))
    /\ trace' = Append(trace, "respond")
    /\ UNCHANGED <<classifier, request, file, image_bytes, image, inference,
                   results, lastResponse, health, fn>>

\* lines 130-138: GET /health, at any moment
Health ==
    /\ health' = [status |-> 200, model_loaded |-> (classifier # "None")]
    /\ UNCHANGED <<classifier, pc, request, file, image_bytes, image, inference,
                   results, response, lastResponse, trace, fn>>

Next ==
    \/ Receive
    \/ PredictEntry
    \/ Validate
    \/ Decode
    \/ Classify
    \/ Postprocess
    \/ Health

Spec == Init /\ [][Next]_vars

---------------------------------------------------------------------------
(* The functions called directly *)

\* declared content types given to validate_image
FnContentTypes ==
    ALLOWED_EXTENSIONS \cup {"image/gif", "image/bmp", "application/pdf", ""}

\* stream sizes given to validate_image: around the limit, small, and 6 MB
FnSizes ==
    {0, 10, 6 * 1024 * 1024} \cup
    {MAX_FILE_SIZE + d : d \in (0 - SizeWindow)..SizeWindow}

\* streams given to validate_image, at their start or at their end
FnFiles ==
    {f \in [content_type : FnContentTypes, filename : {"photo.jpg"},
            size : FnSizes, decodable : {FALSE}, pos : {0} \cup FnSizes] :
        f.pos \in {0, f.size}}

\* confidences given to build_explanation: every 4-decimal value of [0,1) and
\* the values next to the two thresholds
FnConfidences ==
    {c \in 0..(Scale - 1) : c % 100 = 0} \cup
    {HIGH_BAND + d : d \in (0 - Window)..Window} \cup
    {MID_BAND + d : d \in (0 - Window)..Window}

FnCalls ==
    {[NoFn EXCEPT !.name = "validate_image", !.file = f, !.fault = x] :
        f \in FnFiles, x \in Faults} \cup
    {[NoFn EXCEPT !.name = "build_explanation", !.label = l, !.confidence = c,
                  !.tie_up = t] :
        l \in {"AI Generated", "Real"}, c \in FnConfidences, t \in BOOLEAN}

FnInit ==
    /\ classifier = "pipeline"
    /\ pc = "idle"
    /\ request = NoRequest
    /\ file = NoFile
    /\ image_bytes = -1
    /\ image = "none"
    /\ inference = "none"
    /\ results = <<>>
    /\ response = NoResponse
    /\ lastResponse = Summary(NoResponse)
    /\ trace = <<>>
    /\ health = NoHealth
    /\ fn \in FnCalls

CallValidateImage ==
    /\ fn.name = "validate_image"
    /\ ~fn.done
    /\ fn' = [fn EXCEPT !.done = TRUE,
                        !.validation = validate_image(fn.file, fn.fault)]
    /\ UNCHANGED <<classifier, pc, request, file, image_bytes, image, inference,
                   results, response, lastResponse, trace, health>>

CallBuildExplanation ==
    /\ fn.name = "build_explanation"
    /\ ~fn.done
    /\ fn' = [fn EXCEPT !.done = TRUE,
                        !.explanation =
                            build_explanation(fn.label, fn.confidence, fn.tie_up)]
    /\ UNCHANGED <<classifier, pc, request, file, image_bytes, image, inference,
                   results, response, lastResponse, trace, health>>

FnNext ==
    \/ CallValidateImage
    \/ CallBuildExplanation

FnSpec == FnInit /\ [][FnNext]_vars

---------------------------------------------------------------------------
(* Properties *)

Responded == pc = "responded"

FailureKinds ==
    {"InvalidType", "TooLarge", "MissingFile", "DecodeFailure",
     "ModelUnavailable", "InferenceError"}

\* the status the gates of predict decide for the request, in their order
GateStatus ==
    IF classifier = "None" THEN 503
    ELSE IF ~request.has_image \/ request.filename = "" THEN 400
    ELSE IF request.content_type \notin ALLOWED_EXTENSIONS THEN 422
    ELSE IF request.size > MAX_FILE_SIZE THEN 422
    ELSE IF ~request.decodable THEN 422
    ELSE IF inference = "raised" THEN 500
    ELSE 200

\* the request ended in validate_image raising while it measured the stream
StreamFault == Responded /\ response.kind = "Unhandled" /\ inference = "none"

\* C1: every /predict request (here: whose upload size could be measured) is
\* answered by the first gate that fails, in the order 503, 400, 422
\* (validation), 422 (decode), 500, and by 200 with a prediction when none
\* fails; with no model loaded the answer is always 503.
C1_FirstFailingGate ==
    (Responded /\ ~StreamFault) =>
        /\ response.status = GateStatus
        /\ (response.status = 200 => response.kind = "Ok")
        /\ (classifier = "None" => response.kind = "ModelUnavailable")

\* C2: validate_image called with a content type outside the allow-list
\* rejects with the "Invalid file type" message, whatever the size.
C2_InvalidType ==
    (fn.name = "validate_image" /\ fn.done
        /\ fn.file.content_type \notin {"image/jpeg", "image/png", "image/webp"})
    => /\ ~fn.validation.valid
       /\ fn.validation.outcome = "InvalidType"
       /\ fn.validation.msg = InvalidTypeMsg(fn.file.content_type)

C2_Witness ==
    /\ fn.name = "validate_image" /\ fn.done
    /\ fn.file.content_type = "image/gif"
    /\ fn.file.size > MAX_FILE_SIZE
    /\ fn.validation.outcome = "InvalidType"

\* C3 as stated: validate_image called on more than 5,242,880 bytes rejects
\* with the "File too large" message, whatever the content type (here even
\* with the size measured without a stream error).
C3_TooLargeAnyType ==
    (fn.name = "validate_image" /\ fn.done /\ fn.fault = "none"
        /\ fn.file.size > 5242880)
    => /\ ~fn.validation.valid
       /\ fn.validation.outcome = "TooLarge"

\* C3 amended: with an allowed content type and a size that could be
\* measured, more than 5,242,880 bytes are rejected with the "File too large"
\* message and exactly 5,242,880 bytes are accepted; with a content type
\* outside the allow-list the rejection is the "Invalid file type" one.
C3_TooLargeAllowedType ==
    (fn.name = "validate_image" /\ fn.done /\ fn.fault = "none")
    => /\ (fn.file.size > 5242880 /\ fn.file.content_type \in ALLOWED_EXTENSIONS)
            => /\ ~fn.validation.valid
               /\ fn.validation.outcome = "TooLarge"
               /\ fn.validation.msg = TooLargeMsg(fn.file.size)
       /\ (fn.file.size > 5242880 /\ fn.file.content_type \notin ALLOWED_EXTENSIONS)
            => fn.validation.outcome = "InvalidType"
       /\ (fn.file.size = 5242880 /\ fn.file.content_type \in ALLOWED_EXTENSIONS)
            => fn.validation.valid /\ fn.validation.outcome = "Ok"

C3_Witness ==
    /\ fn.name = "validate_image" /\ fn.done /\ fn.fault = "none"
    /\ fn.file.content_type = "image/jpeg"
    /\ fn.file.size = 5242880 + 1
    /\ fn.validation.outcome = "TooLarge"

\* C4 as stated: two failures of different kinds never share a status code
\* (nor a message).
C4_DistinctStatus ==
    (Responded /\ response.kind \in FailureKinds /\ lastResponse.kind \in FailureKinds
        /\ response.kind # lastResponse.kind)
    => /\ response.status # lastResponse.status
       /\ response.error.template # lastResponse.template

C4_StatusOf(kind) ==
    CASE kind = "InvalidType" -> 422
      [] kind = "TooLarge" -> 422
      [] kind = "DecodeFailure" -> 422
      [] kind = "MissingFile" -> 400
      [] kind = "ModelUnavailable" -> 503
      [] kind = "InferenceError" -> 500

\* C4 amended: each failure kind has one fixed status (422 for InvalidType,
\* TooLarge and DecodeFailure, 400 for MissingFile, 503 for ModelUnavailable,
\* 500 for InferenceError), and two failures of different kinds never share
\* a message.
C4_StatusPerKind ==
    /\ (Responded /\ response.kind \in FailureKinds)
         => /\ response.status = C4_StatusOf(response.kind)
            /\ response.json
            /\ response.error.template # ""
    /\ (Responded /\ response.kind \in FailureKinds
            /\ lastResponse.kind \in FailureKinds
            /\ response.kind # lastResponse.kind)
         => response.error.template # lastResponse.template

C4_Witness ==
    /\ Responded
    /\ response.kind = "TooLarge" /\ response.status = 422
    /\ lastResponse.kind = "InvalidType" /\ lastResponse.status = 422

\* C5: every failure of a /predict request ends in a structured JSON error;
\* no exception leaves predict().
C5_NoUnhandledException ==
    Responded => response.json /\ response.kind # "Unhandled"

C6_Templates == {AI_HIGH, AI_MID, AI_LOW, REAL_HIGH, REAL_MID, REAL_LOW}

\* the band table: label and confidence band to template
C6_Band(label, c) ==
    CASE label = "AI Generated" /\ c >= 900000 -> AI_HIGH
      [] label = "AI Generated" /\ c >= 700000 /\ c < 900000 -> AI_MID
      [] label = "AI Generated" /\ c < 700000 -> AI_LOW
      [] label = "Real" /\ c >= 900000 -> REAL_HIGH
      [] label = "Real" /\ c >= 700000 /\ c < 900000 -> REAL_MID
      [] label = "Real" /\ c < 700000 -> REAL_LOW

\* C6: for both labels and every confidence in [0,1), build_explanation
\* returns the one template of the band table, chosen by the label and the
\* band of the confidence itself, and the text holds the confidence as a
\* percentage rounded to one decimal; 0.8999 takes the middle band and shows
\* 90.0%.
C6_Explanation ==
    (fn.name = "build_explanation" /\ fn.done)
    => /\ fn.explanation.template \in C6_Templates
       /\ fn.explanation.template = C6_Band(fn.label, fn.confidence)
       /\ fn.explanation.pct % 100000 = 0
       /\ Abs(fn.explanation.pct - 100 * fn.confidence) <= 50000
       /\ (fn.confidence = 899900 =>
              /\ fn.explanation.template \in {AI_MID, REAL_MID}
              /\ fn.explanation.pct = 90000000)

C6_Witness ==
    /\ fn.name = "build_explanation" /\ fn.done
    /\ fn.label = "AI Generated"
    /\ fn.confidence = 899900
    /\ fn.explanation = [template |-> AI_MID, pct |-> 90000000]

\* the entry predict takes: maximal score, and the first such entry
C8_IsTop(i) ==
    /\ i \in 1..Len(results)
    /\ \A j \in 1..Len(results) : results[j].score <= results[i].score
    /\ \A j \in 1..(i - 1) : results[j].score < results[i].score

C7_Keywords ==
    { <<"a", "r", "t", "i", "f", "i", "c", "i", "a", "l">>,
      <<"f", "a", "k", "e">>,
      <<"a", "i">>,
      <<"g", "e", "n", "e", "r", "a", "t", "e", "d">>,
      <<"s", "y", "n", "t", "h", "e", "t", "i", "c">> }

\* label, lowercased, has one of the five keywords as a substring
C7_HasKeyword(label) ==
    \E kw \in C7_Keywords : \E i \in 1..Len(label) :
        /\ i + Len(kw) - 1 <= Len(label)
        /\ SubSeq(Lower(label), i, i + Len(kw) - 1) = kw

C7_Top == results[CHOOSE i \in 1..Len(results) : C8_IsTop(i)]

\* C7: in every 200 response the prediction is "AI Generated" exactly when
\* the lowercased label of the top result contains "artificial", "fake",
\* "ai", "generated" or "synthetic", and "Real" otherwise; "AI-generated",
\* "fake photo" and "synthetic art" give "AI Generated", "real" and
\* "photograph" give "Real".
C7_Normalization ==
    (Responded /\ response.status = 200)
    => /\ response.prediction \in {"AI Generated", "Real"}
       /\ (response.prediction = "AI Generated") <=> C7_HasKeyword(C7_Top.label)
       /\ C7_Top.label \in
              { <<"A", "I", "-", "g", "e", "n", "e", "r", "a", "t", "e", "d">>,
                <<"f", "a", "k", "e", " ", "p", "h", "o", "t", "o">>,
                <<"s", "y", "n", "t", "h", "e", "t", "i", "c", " ", "a", "r", "t">> }
            => response.prediction = "AI Generated"
       /\ C7_Top.label \in
              { <<"r", "e", "a", "l">>,
                <<"p", "h", "o", "t", "o", "g", "r", "a", "p", "h">> }
            => response.prediction = "Real"

C7_Witness ==
    /\ Responded /\ response.status = 200
    /\ Len(results) = 2
    /\ C7_Top.label = <<"s", "y", "n", "t", "h", "e", "t", "i", "c", " ", "a", "r", "t">>
    /\ response.prediction = "AI Generated"

\* C8: in every 200 response, prediction and confidence come from the same
\* result: the first one of maximal score; the prediction is the
\* normalization of its label and the confidence is its score as a
\* percentage rounded to two decimals.
C8_FromTopResult ==
    (Responded /\ response.status = 200)
    => \E i \in 1..Len(results) :
          /\ C8_IsTop(i)
          /\ response.prediction =
                 (IF C7_HasKeyword(results[i].label) THEN "AI Generated" ELSE "Real")
          /\ response.confidence % 10000 = 0
          /\ Abs(response.confidence - 100 * results[i].score) <= 5000

C8_Witness ==
    /\ Responded /\ response.status = 200
    /\ Len(results) = 2
    /\ results[1].score = results[2].score
    /\ results[1].label # results[2].label
    /\ response.prediction = "AI Generated"
    /\ response.confidence = 92300000

\* C9: validate_image leaves the stream at position 0 when it succeeds, so
\* the read that follows returns as many bytes as the upload has; validation
\* never changes the stream's content, and an "Invalid file type" rejection
\* leaves the position where it was.
C9_StreamRestored ==
    /\ pc = "decode" => file.pos = 0
    /\ image_bytes # -1 => image_bytes = request.size
    /\ request.has_image =>
          /\ file.size = request.size
          /\ file.decodable = request.decodable
          /\ file.content_type = request.content_type
    /\ (Responded /\ response.kind = "InvalidType") => file.pos = 0

C9_Witness ==
    /\ pc = "classify"
    /\ request.size = MAX_FILE_SIZE
    /\ image_bytes = MAX_FILE_SIZE
    /\ file.pos = file.size

Count(seq, x) == Cardinality({i \in 1..Len(seq) : seq[i] = x})

\* the steps of one request are a prefix of validate, decode, classify, respond
C10_Order ==
    /\ Len(trace) <= 4
    /\ trace = SubSeq(<<"validate", "decode", "classify", "respond">>, 1, Len(trace))
    /\ Count(trace, "decode") > 0 =>
          /\ request.content_type \in ALLOWED_EXTENSIONS
          /\ request.size <= MAX_FILE_SIZE
    /\ Count(trace, "classify") <= 1
    /\ Count(trace, "classify") = 1 => image = "RGB" /\ request.decodable
    /\ (Responded /\ response.status \in {503, 400, 422}) =>
          /\ Count(trace, "classify") = 0
          /\ inference = "none"
    /\ inference # "none" <=> Count(trace, "classify") = 1

C10_Health ==
    health # NoHealth =>
        /\ health.status = 200
        /\ health.model_loaded = (classifier # "None")

\* C10: a request validates, then decodes, then classifies, then responds:
\* it decodes only after the content-type and the size check passed, calls
\* the classifier at most once and only after a successful decode, and never
\* calls it when it is rejected with 503, 400 or 422; no step reassigns the
\* classifier handle, and GET /health answers 200 with the same model_loaded
\* before and after any requests.
C10_StepOrder ==
    /\ [](C10_Order /\ C10_Health)
    /\ [][classifier' = classifier /\ (health # NoHealth => health' = health)]_vars

C10_Witness ==
    /\ Responded /\ response.status = 200
    /\ trace = <<"validate", "decode", "classify", "respond">>
    /\ health.status = 200
    /\ lastResponse.status = 422

====
